---- MODULE Spec2Model ----
(***************************************************************************)
(* ChatSession (generative_models.py) and the content coercion it uses     *)
(* (content_types.py), as a state machine.  One session object, one        *)
(* caller: every public operation runs to completion before the next one   *)
(* starts; send_message with automatic function calling (AFC) is split at  *)
(* the calls to the model collaborator, one step per loop iteration.       *)
(***************************************************************************)
EXTENDS Integers, Sequences, FiniteSets, TLC

\* ---------------------------------------------------------------- bounds
MaxHist == 4       \* send_message is called while history and the new pair fit in this
MaxRounds == 2     \* AFC continuation rounds per send_message call
MaxLog == 4        \* length of the log of operations that follow a turn
MaxFailLog == 2    \* the same, after a send_message call that raised
MaxLen == 2        \* length of the lists given to the functions of content_types

\* ---------------------------------------------------------------- values
\* Python values are tagged records; None is a value of its own.
None == [kind |-> "None"]

Str(s) == [kind |-> "str", v |-> s]

List(items) == [kind |-> "list", items |-> items]

\* A Part with one variant of its oneof set; the payload v is a value.
Part(variant, v) == [kind |-> "Part", variant |-> variant, v |-> v]

Content(role, parts) == [kind |-> "Content", role |-> role, parts |-> parts]

\* An iterator that can be traversed once: items are the elements it has
\* yet to yield.
Iter(items) == [kind |-> "iterator", items |-> items]

\* A dict, with its keys in insertion order: pairs of <<key, value>>.
Dict(pairs) == [kind |-> "dict", pairs |-> pairs]

Keys(d) == {d.pairs[i][1] : i \in 1..Len(d.pairs)}

Get(d, key) == d.pairs[CHOOSE i \in 1..Len(d.pairs) : d.pairs[i][1] = key][2]

Blob(mime_type, data) == [kind |-> "Blob", mime_type |-> mime_type, data |-> data]

FileData(mime_type, file_uri) ==
    [kind |-> "FileData", mime_type |-> mime_type, file_uri |-> file_uri]

File(mime_type, uri) == [kind |-> "File", mime_type |-> mime_type, uri |-> uri]

\* A value outside every union of content_types.
Number(n) == [kind |-> "int", v |-> n]

FunctionCall(name, args) == [kind |-> "FunctionCall", name |-> name, args |-> args]

FunctionResponse(name, response) ==
    [kind |-> "FunctionResponse", name |-> name, response |-> response]

_USER_ROLE == "user"

_MODEL_ROLE == "model"

\* Raised exceptions are values too.
Raise(exc) == [kind |-> "raise", exc |-> exc]

IsRaise(x) == x.kind = "raise"

\* ------------------------------------------------------- content coercion
AnyRaise(seq) == \E i \in 1..Len(seq) : IsRaise(seq[i])

\* A comprehension stops at the first element that raises.
FirstRaise(seq) ==
    seq[CHOOSE i \in 1..Len(seq) : IsRaise(seq[i]) /\ \A j \in 1..(i - 1) : ~IsRaise(seq[j])]

is_blob_dict(d) == {"mime_type", "data"} \subseteq Keys(d)

is_part_dict(d) ==
    /\ Len(d.pairs) = 1
    /\ d.pairs[1][1] \in {"text", "inline_data", "function_call", "function_response",
                          "file_data"}

is_content_dict(d) == "parts" \in Keys(d)

to_file_data(file_data) ==
    LET given == IF file_data.kind = "dict"
                 THEN IF "file_uri" \in Keys(file_data)
                      THEN FileData(Get(file_data, "mime_type").v, Get(file_data, "file_uri").v)
                      ELSE File(Get(file_data, "mime_type").v, Get(file_data, "uri").v)
                 ELSE file_data
    IN  CASE given.kind = "File" -> FileData(given.mime_type, given.uri)
          [] given.kind = "FileData" -> given
          [] OTHER -> Raise("TypeError")

RECURSIVE to_part(_), _convert_dict(_), to_blob(_)

\* to_blob once a dict is converted.  No image type is installed: what is
\* not a Blob is rejected.
BlobOf(blob) ==
    IF IsRaise(blob) THEN blob
    ELSE IF blob.kind = "Blob" THEN blob
    ELSE IF blob.kind = "dict" THEN Raise("KeyError")
    ELSE Raise("TypeError")

to_blob(blob) == BlobOf(IF blob.kind = "dict" THEN _convert_dict(blob) ELSE blob)

\* The parts of a content-dict as a list: a str stands for the list of it.
PartsOf(parts) == IF parts.kind = "str" THEN <<parts>> ELSE parts.items

\* glm.Content(content), unless the conversion of a part has raised.
ContentOf(role, parts) ==
    IF AnyRaise(parts) THEN FirstRaise(parts) ELSE Content(role, parts)

\* The value of the one field of a part-dict.
FieldOf(key, value) ==
    CASE key = "inline_data" -> to_blob(value)
      [] key = "file_data" -> to_file_data(value)
      [] OTHER -> value

\* glm.Part(part), unless the conversion of its field has raised.
PartOfField(key, field) ==
    IF key \in {"inline_data", "file_data"} /\ IsRaise(field) THEN field
    ELSE Part(key, field)

_convert_dict(d) ==
    IF is_content_dict(d)
    THEN ContentOf(IF "role" \in Keys(d) THEN Get(d, "role").v ELSE "",
                   [i \in 1..Len(PartsOf(Get(d, "parts"))) |->
                       to_part(PartsOf(Get(d, "parts"))[i])])
    ELSE IF is_part_dict(d)
    THEN PartOfField(d.pairs[1][1], FieldOf(d.pairs[1][1], d.pairs[1][2]))
    ELSE IF is_blob_dict(d) THEN Blob(Get(d, "mime_type").v, Get(d, "data").v)
    ELSE Raise("KeyError")

\* glm.Part(inline_data=...), unless to_blob has raised.
InlinePart(blob) == IF IsRaise(blob) THEN blob ELSE Part("inline_data", blob)

\* to_part once a dict is converted.  The second FunctionCall test of the
\* source is never reached, so a FunctionResponse goes on to to_blob.
PartOf(part) ==
    IF IsRaise(part) THEN part
    ELSE CASE part.kind = "Part" -> part
           [] part.kind = "str" -> Part("text", part)
           [] part.kind = "FileData" -> Part("file_data", part)
           [] part.kind = "File" -> Part("file_data", to_file_data(part))
           [] part.kind = "FunctionCall" -> Part("function_call", part)
           [] OTHER -> InlinePart(to_blob(part))

to_part(part) == PartOf(IF part.kind = "dict" THEN _convert_dict(part) ELSE part)

\* Python truthiness of the values to_content is given; a Content with no
\* field set is falsy.
Falsy(x) ==
    \/ x.kind = "None"
    \/ x.kind = "str" /\ x.v = ""
    \/ x.kind = "list" /\ x.items = <<>>
    \/ x.kind = "dict" /\ x.pairs = <<>>
    \/ x.kind = "Content" /\ x.role = "" /\ x.parts = <<>>

\* to_content once a dict is converted.
ContentFrom(content) ==
    IF IsRaise(content) THEN content
    ELSE IF content.kind = "Content" THEN content
    ELSE IF content.kind \in {"list", "iterator"}
    THEN ContentOf("", [i \in 1..Len(content.items) |-> to_part(content.items[i])])
    ELSE ContentOf("", <<to_part(content)>>)

to_content(content) ==
    IF Falsy(content) THEN Raise("ValueError")
    ELSE ContentFrom(IF content.kind = "dict" THEN _convert_dict(content) ELSE content)

\* strict_to_content once a dict is converted.
StrictOf(content) ==
    IF IsRaise(content) THEN content
    ELSE IF content.kind = "Content" THEN content
    ELSE Raise("TypeError")

\* strict_to_content that takes whatever to_content takes.
strict_to_content_lenient(content) == to_content(content)

strict_to_content(content) ==
    StrictOf(IF content.kind = "dict" THEN _convert_dict(content) ELSE content)

\* The list a Content is returned in, unless to_content has raised.
ListOf(content) == IF IsRaise(content) THEN content ELSE List(<<content>>)

\* What the strict attempt has left of its argument: an iterator has
\* yielded its elements up to the one that raised, and does not yield them
\* again.
LeftOf(contents, strict) ==
    IF contents.kind = "iterator"
    THEN Iter(SubSeq(contents.items,
                     1 + (CHOOSE i \in 1..Len(strict) :
                            IsRaise(strict[i]) /\ \A j \in 1..(i - 1) : ~IsRaise(strict[j])),
                     Len(contents.items)))
    ELSE contents

\* What to_contents does with the outcome of the strict attempt: only a
\* TypeError leads to the fallback.
Disambiguate(contents, strict) ==
    IF ~AnyRaise(strict) THEN List(strict)
    ELSE IF FirstRaise(strict).exc # "TypeError" THEN FirstRaise(strict)
    ELSE ListOf(to_content(LeftOf(contents, strict)))

\* to_contents without the fallback: one Content per element of a list,
\* each by to_content.
to_contents_each(contents) ==
    IF contents.kind = "None" THEN List(<<>>)
    ELSE IF contents.kind # "list" THEN ListOf(to_content(contents))
    ELSE IF \E i \in 1..Len(contents.items) : IsRaise(to_content(contents.items[i]))
    THEN Raise("TypeError")
    ELSE List([i \in 1..Len(contents.items) |-> to_content(contents.items[i])])

\* The result is a Python list of Contents, or a raise.
to_contents(contents) ==
    IF contents.kind = "None" THEN List(<<>>)
    ELSE Disambiguate(contents,
                      IF contents.kind \in {"list", "iterator"}
                      THEN [i \in 1..Len(contents.items) |->
                               strict_to_content(contents.items[i])]
                      ELSE <<Raise("TypeError")>>)

\* ------------------------------------------------------ function library
FunctionDeclaration(name) == [kind |-> "FunctionDeclaration", name |-> name]

CallableFunctionDeclaration(name, function) ==
    [kind |-> "CallableFunctionDeclaration", name |-> name, function |-> function]

Callable(declaration) == declaration.kind = "CallableFunctionDeclaration"

\* The Python functions bound to declarations: "count" returns the number
\* of its keyword arguments, "kwargs" returns them as a dict.
Apply(function, args) ==
    IF function = "count" THEN Number(Len(args.pairs)) ELSE args

DeclNames(declarations) == [i \in 1..Len(declarations) |-> declarations[i].name]

Repeats(names) == \E i, j \in 1..Len(names) : i < j /\ names[i] = names[j]

\* Tool.__init__
Tool(function_declarations) ==
    IF Repeats(DeclNames(function_declarations)) THEN Raise("ValueError")
    ELSE [kind |-> "Tool", function_declarations |-> function_declarations]

\* _make_tool, for a Tool, a list of declarations and a single declaration.
_make_tool(tool) ==
    IF tool.kind = "Tool" THEN tool
    ELSE IF tool.kind = "list" THEN Tool(tool.items)
    ELSE Tool(<<tool>>)

\* _make_tools, for a list of tools.
_make_tools(tools) ==
    LET made == [i \in 1..Len(tools.items) |-> _make_tool(tools.items[i])]
    IN  IF AnyRaise(made) THEN FirstRaise(made)
        ELSE IF Len(made) > 1 /\ \A i \in 1..Len(made) : Len(made[i].function_declarations) = 1
        THEN LET flat == _make_tool(List([i \in 1..Len(made) |->
                                             made[i].function_declarations[1]]))
             IN  IF IsRaise(flat) THEN flat ELSE List(<<flat>>)
        ELSE List(made)

\* The declarations of a list of Tools, in the order __init__ walks them.
RECURSIVE Declarations(_)
Declarations(tools) ==
    IF tools = <<>> THEN <<>>
    ELSE Head(tools).function_declarations \o Declarations(Tail(tools))

\* FunctionLibrary.__init__ without the test for a name already defined: the
\* later declaration of a name replaces the earlier one.
FunctionLibrary_lastWins(tools) ==
    LET made == _make_tools(tools)
    IN  IF IsRaise(made) THEN made
        ELSE LET declarations == Declarations(made.items)
             IN  [kind |-> "FunctionLibrary", tools |-> made.items,
                  index |-> [n \in {declarations[i].name : i \in 1..Len(declarations)} |->
                                declarations[CHOOSE i \in 1..Len(declarations) :
                                    /\ declarations[i].name = n
                                    /\ \A j \in (i + 1)..Len(declarations) :
                                          declarations[j].name # n]]]

\* FunctionLibrary.__init__: _index maps each declared name to its declaration.
FunctionLibrary(tools) ==
    LET made == _make_tools(tools)
    IN  IF IsRaise(made) THEN made
        ELSE LET declarations == Declarations(made.items)
             IN  IF Repeats(DeclNames(declarations)) THEN Raise("ValueError")
                 ELSE [kind |-> "FunctionLibrary", tools |-> made.items,
                       index |-> [n \in {declarations[i].name : i \in 1..Len(declarations)} |->
                                     declarations[CHOOSE i \in 1..Len(declarations) :
                                                      declarations[i].name = n]]]

\* ------------------------------------------------------ schema synthesis
\* A parameter of a signature, as inspect gives it; default tells whether
\* the parameter has a default value.
Parameter(name, kind, default) ==
    [name |-> name, kind |-> kind, default |-> default]

\* The parameter kinds that are neither *args nor **kwargs.
FixedKinds == {"POSITIONAL_OR_KEYWORD", "KEYWORD_ONLY", "POSITIONAL_ONLY"}

ParameterNames(params) == [i \in 1..Len(params) |-> Str(params[i].name)]

\* _generate_schema: the properties and the required list of the schema of
\* a function with the given signature.
_generate_schema(f, required) ==
    LET given == IF required = None THEN List(<<>>) ELSE required
        fields == SelectSeq(f.parameters, LAMBDA param : param.kind \in FixedKinds)
        inferred == SelectSeq(f.parameters,
                              LAMBDA param : ~param.default /\ param.kind \in FixedKinds)
    IN  [kind |-> "dict", name |-> f.name,
         parameters |-> [properties |-> ParameterNames(fields),
                         required |-> IF given.items # <<>> THEN given
                                      ELSE List(ParameterNames(inferred))]]

\* ------------------------------------------------------------ libraries
\* "f" is bound to a callable, "g" is a plain declaration, "h" is declared
\* nowhere.
NoLib == [kind |-> "None"]

TheLib == FunctionLibrary(List(<<CallableFunctionDeclaration("f", "count"),
                                 FunctionDeclaration("g")>>))

\* FunctionLibrary.__getitem__: the declaration, or KeyError.
Lib__getitem__(lib, name) ==
    IF name \in DOMAIN lib.index THEN lib.index[name] ELSE Raise("KeyError")

\* CallableFunctionDeclaration.__call__ without the wrapping of a result
\* that is not a dict.
Declaration__call___bare(declaration, fc) ==
    FunctionResponse(fc.name, Apply(declaration.function, fc.args))

\* CallableFunctionDeclaration.__call__ when the bound function returns.
Declaration__call__(declaration, fc) ==
    LET result == Apply(declaration.function, fc.args)
    IN  FunctionResponse(fc.name, IF result.kind # "dict"
                                  THEN Dict(<<<<"result", result>>>>)
                                  ELSE result)

\* FunctionLibrary.__call__: None for a declaration that is not callable.
Lib__call__(lib, fc) ==
    LET declaration == Lib__getitem__(lib, fc.name)
    IN  IF IsRaise(declaration) THEN declaration
        ELSE IF ~Callable(declaration) THEN None
        ELSE Part("function_response", Declaration__call__(declaration, fc))

\* ------------------------------------------------------------- responses
\* What the model collaborator hands back: a response object, or a failure
\* of the call.  ncand is len(response.candidates); content and finish are
\* those of candidates[0].
Response(block, ncand, finish, content) ==
    [kind |-> "Response", block |-> block, ncand |-> ncand,
     finish |-> finish, content |-> content, stream |-> FALSE]

\* GenerativeModel.generate_content: from_iterator for stream=True, else
\* from_response; a failure of the call propagates.
generate_content(r, stream) ==
    IF IsRaise(r) THEN r ELSE [r EXCEPT !.stream = stream]

CallFails == Raise("GoogleAPIError")

TextParts == <<Part("text", Str("ok"))>>

\* The function calls of the model carry no arguments here.
NoArgs == Dict(<<>>)

FcParts(names) ==
    [i \in 1..Len(names) |-> Part("function_call", FunctionCall(names[i], NoArgs))]

FcNames == {<<"f">>, <<"g">>, <<"h">>, <<"f", "f">>, <<"f", "g">>, <<"g", "h">>}

TextResponses ==
    {Response(FALSE, 1, "STOP", Content("", TextParts))}
    \cup {Response(FALSE, 1, fin, Content(_MODEL_ROLE, TextParts)) :
            fin \in {"FINISH_REASON_UNSPECIFIED", "MAX_TOKENS", "SAFETY"}}

FcResponses == {Response(FALSE, 1, "STOP", Content(_MODEL_ROLE, FcParts(ns))) : ns \in FcNames}

OtherResponses ==
    {Response(TRUE, 0, "FINISH_REASON_UNSPECIFIED", None),
     Response(FALSE, 2, "STOP", Content(_MODEL_ROLE, TextParts))}

Responses == TextResponses \cup FcResponses \cup OtherResponses

NormalFinish(finish) == finish \in {"FINISH_REASON_UNSPECIFIED", "STOP", "MAX_TOKENS"}

\* ChatSession._check_response: "" when the response passes.
_check_response(response, stream) ==
    IF response.block THEN "BlockedPromptException"
    ELSE IF ~stream /\ ~NormalFinish(response.finish) THEN "StopCandidateException"
    ELSE ""

\* ChatSession._get_function_calls: the FunctionCalls of the candidate's parts.
_get_function_calls(response) ==
    IF response.ncand # 1 THEN Raise("ValueError")
    ELSE LET parts == response.content.parts
             F[i \in 0..Len(parts)] ==
                 IF i = 0 THEN <<>>
                 ELSE IF parts[i].variant = "function_call"
                      THEN Append(F[i - 1], parts[i].v)
                      ELSE F[i - 1]
         IN  List(F[Len(parts)])

\* all(callable(tools_lib[fc]) for fc in function_calls): evaluated left to
\* right, stopping at the first False; a lookup reached before that raises.
\* any() in place of all(): one callable declaration is enough.
AllCallable_any(lib, fcs) ==
    IF \E i \in 1..Len(fcs) :
          /\ fcs[i].name \in DOMAIN lib.index
          /\ Callable(lib.index[fcs[i].name])
    THEN "True" ELSE "False"

AllCallable(lib, fcs) ==
    LET A[i \in 0..Len(fcs)] ==
            IF i = 0 THEN "True"
            ELSE IF A[i - 1] # "True" THEN A[i - 1]
            ELSE LET d == Lib__getitem__(lib, fcs[i].name)
                 IN  IF IsRaise(d) THEN "KeyError"
                     ELSE IF Callable(d) THEN "True" ELSE "False"
    IN  A[Len(fcs)]

\* ------------------------------------------------------------------ state
VARIABLES
    _history,           \* ChatSession._history: committed Contents
    _last_sent,         \* ChatSession._last_sent: Content or None
    _last_received,     \* ChatSession._last_received: response or None
    last_error,         \* _last_received._error is not None
    enable_automatic_function_calling,
    model_tools,        \* GenerativeModel._tools
    pc,                 \* "idle", or "afc" inside send_message's AFC loop
    history,            \* send_message's local working history
    response,           \* send_message's local response
    tools_lib,          \* send_message's local tool library
    generation_config,  \* send_message's local generation_config, inside the AFC loop
    safety_settings,    \* send_message's safety_settings argument, inside the AFC loop
    requests,           \* the requests the last send_message call has built, in order
    calls,              \* collaborator calls issued by the current or last turn
    invoked,            \* names of the callables invoked by that turn, in order
    responses,          \* the responses that turn got and accepted, in order
    turn,               \* that turn's inputs and outcome
    snap,               \* the history that turn started from (line 461)
    op,                 \* the public operation that ran last
    result,             \* what it returned, or the exception it raised
    log,                \* the operations since the turn began, oldest first
    passed,             \* the Content object last passed to send_message: as it was, as it is
    candidate,          \* candidates[0].content of the response that call returned: the same
    fn,                 \* the function of content_types applied on its own, "" before
    arg,                \* the argument it is applied to
    out                 \* what it returned, or the exception it raised

session == <<_history, _last_sent, _last_received, last_error>>

config == <<enable_automatic_function_calling, model_tools>>

locals == <<pc, history, response, tools_lib, generation_config, safety_settings>>

turnvars == <<calls, invoked, responses, turn, snap>>

observed == turnvars

applied == <<fn, arg, out>>

objects == <<passed, candidate>>

vars == <<session, config, locals, observed, requests, op, result, log, objects, applied>>

\* ------------------------------------------------------------ input sets
UserContent == Content(_USER_ROLE, <<Part("text", Str("q"))>>)

ModelContent == Content(_MODEL_ROLE, <<Part("text", Str("a"))>>)

\* history arguments of the constructor and of the history setter
Seeds == {None, List(<<UserContent, ModelContent>>), List(<<UserContent>>)}

\* content arguments of send_message
Messages == {Str("hi"), Str("")}

NoTurn ==
    [content |-> None, stream |-> FALSE, pending |-> FALSE, afc |-> FALSE, rounds |-> 0,
     outcome |-> "none"]

\* ---------------------------------------------------------- construction
\* ChatSession.__init__ on a model built with or without tools.
Init ==
    /\ \E seed \in Seeds : _history = to_contents(seed).items
    /\ _last_sent = None
    /\ _last_received = None
    /\ last_error = FALSE
    /\ enable_automatic_function_calling \in BOOLEAN
    /\ model_tools \in {NoLib, TheLib}
    /\ pc = "idle"
    /\ history = <<>>
    /\ response = None
    /\ tools_lib = None
    /\ generation_config = None
    /\ safety_settings = None
    /\ requests = <<>>
    /\ calls = 0
    /\ invoked = <<>>
    /\ responses = <<>>
    /\ turn = NoTurn
    /\ snap = <<>>
    /\ op = "__init__"
    /\ result = None
    /\ log = <<>>
    /\ passed = None
    /\ candidate = None
    /\ fn = ""
    /\ arg = None
    /\ out = None

\* An operation has run: remember it and its outcome.
Exc(res) == IF res.kind = "raise" THEN res.exc ELSE ""

\* The log follows a turn through the history reads and rewinds that come
\* right after it, up to an assignment of history; any other operation ends
\* it, and with it what is remembered of the turn.
Follows(name) ==
    /\ log # <<>>
    /\ Len(log) < (IF log[1].exc = "" THEN MaxLog ELSE MaxFailLog)
    /\ log[Len(log)].op # "history.setter"
    /\ name \in {"history", "rewind", "history.setter"}

Done(name, res) ==
    /\ op' = name
    /\ result' = res
    /\ log' = IF Follows(name) THEN Append(log, [op |-> name, exc |-> Exc(res)]) ELSE <<>>
    /\ requests' = <<>>
    /\ IF Follows(name) /\ name # "history.setter"
       THEN UNCHANGED turnvars
       ELSE /\ calls' = 0
            /\ invoked' = <<>>
            /\ responses' = <<>>
            /\ turn' = NoTurn
            /\ snap' = <<>>

\* The caller's objects are followed as long as the log is.
Kept(name, object) == IF Follows(name) THEN object ELSE None

\* ------------------------------------------------------ history property
\* The getter, as the state it leaves and the value it returns (ret).
\* The role is assigned whether or not there is one.
role_or_overwrites(content, role) == [content EXCEPT !.role = role]

\* The role is left as it came.
role_or_asIs(content, role) == content

role_or(content, role) ==
    IF content.role = "" THEN [content EXCEPT !.role = role] ELSE content

\* A read that raised forgets the pending turn.
history_get_clearsBroken ==
    IF _last_received = None
    THEN [ret |-> List(_history), hist |-> _history, sent |-> _last_sent,
          recv |-> _last_received, err |-> last_error]
    ELSE IF last_error \/ ~NormalFinish(_last_received.finish)
    THEN [ret |-> Raise("BrokenResponseError"), hist |-> _history,
          sent |-> None, recv |-> None, err |-> FALSE]
    ELSE LET received == role_or(_last_received.content, _MODEL_ROLE)
             extended == _history \o <<_last_sent, received>>
         IN  [ret |-> List(extended), hist |-> extended, sent |-> None,
              recv |-> None, err |-> FALSE]

\* The finish reason is not looked at, only a stored error.
history_get_ignoresFinish ==
    IF _last_received = None
    THEN [ret |-> List(_history), hist |-> _history, sent |-> _last_sent,
          recv |-> _last_received, err |-> last_error]
    ELSE IF last_error
    THEN [ret |-> Raise("BrokenResponseError"), hist |-> _history,
          sent |-> _last_sent, recv |-> _last_received, err |-> TRUE]
    ELSE LET received == role_or(_last_received.content, _MODEL_ROLE)
             extended == _history \o <<_last_sent, received>>
         IN  [ret |-> List(extended), hist |-> extended, sent |-> None,
              recv |-> None, err |-> FALSE]

\* The commit leaves the pending slots set.
history_get_keepsPending ==
    IF _last_received = None
    THEN [ret |-> List(_history), hist |-> _history, sent |-> _last_sent,
          recv |-> _last_received, err |-> last_error]
    ELSE IF last_error \/ ~NormalFinish(_last_received.finish)
    THEN [ret |-> Raise("BrokenResponseError"), hist |-> _history,
          sent |-> _last_sent, recv |-> _last_received, err |-> TRUE]
    ELSE LET received == role_or(_last_received.content, _MODEL_ROLE)
             extended == _history \o <<_last_sent, received>>
         IN  [ret |-> List(extended), hist |-> extended, sent |-> _last_sent,
              recv |-> _last_received, err |-> last_error]

history_get ==
    IF _last_received = None
    THEN [ret |-> List(_history), hist |-> _history, sent |-> _last_sent,
          recv |-> _last_received, err |-> last_error]
    ELSE IF last_error \/ ~NormalFinish(_last_received.finish)
    THEN [ret |-> Raise("BrokenResponseError"), hist |-> _history,
          sent |-> _last_sent, recv |-> _last_received, err |-> TRUE]
    ELSE LET received == role_or(_last_received.content, _MODEL_ROLE)
             extended == _history \o <<_last_sent, received>>
         IN  [ret |-> List(extended), hist |-> extended, sent |-> None,
              recv |-> None, err |-> FALSE]

\* The private list is copied, the property is not read.
history_copy_raw ==
    [ret |-> List(_history), hist |-> _history, sent |-> _last_sent,
     recv |-> _last_received, err |-> last_error]

\* Line 461, "self.history[:]": a read of the property.
history_copy == history_get

\* Lines 689-692: "received" is the candidate content of the pending
\* response itself, and the role is assigned on it; g is what the read of
\* history leaves.
received_after(g) ==
    IF candidate = None \/ _last_received = None \/ g.recv # None \/ g.hist = _history
    THEN candidate
    ELSE [candidate EXCEPT !.now = g.hist[Len(g.hist)]]

SetSession(g) ==
    /\ _history' = g.hist
    /\ _last_sent' = g.sent
    /\ _last_received' = g.recv
    /\ last_error' = g.err

ReadHistory ==
    /\ pc = "idle"
    /\ SetSession(history_get)
    /\ Done("history", history_get.ret)
    /\ candidate' = Kept("history", received_after(history_get))
    /\ passed' = Kept("history", passed)
    /\ UNCHANGED <<config, locals>>
    /\ UNCHANGED applied

\* ChatSession.last
ReadLast ==
    /\ pc = "idle"
    /\ Done("last", _last_received)
    /\ candidate' = Kept("last", candidate)
    /\ passed' = Kept("last", passed)
    /\ UNCHANGED <<session, config, locals>>
    /\ UNCHANGED applied

\* The setter leaves _last_sent as it is.
history_set_keepsSent(h) ==
    [ret |-> None, hist |-> to_contents(h).items, sent |-> _last_sent, recv |-> None,
     err |-> FALSE]

\* The history setter.
history_set(h) ==
    [ret |-> None, hist |-> to_contents(h).items, sent |-> None, recv |-> None, err |-> FALSE]

SetHistory ==
    /\ pc = "idle"
    /\ \E h \in Seeds :
          /\ SetSession(history_set(h))
          /\ Done("history.setter", None)
    /\ candidate' = Kept("history.setter", candidate)
    /\ passed' = Kept("history.setter", passed)
    /\ UNCHANGED <<config, locals>>
    /\ UNCHANGED applied

\* ChatSession.__copy__: reads history, the copy gets a list of its own.
Copy ==
    /\ pc = "idle"
    /\ SetSession(history_get)
    /\ Done("__copy__", history_get.ret)
    /\ candidate' = Kept("__copy__", received_after(history_get))
    /\ passed' = Kept("__copy__", passed)
    /\ UNCHANGED <<config, locals>>
    /\ UNCHANGED applied

\* With no pending turn, only the last committed entry is removed.
rewind_popsOne ==
    IF _last_received = None
    THEN IF Len(_history) < 2
         THEN [ret |-> Raise("IndexError"), hist |-> _history, sent |-> _last_sent,
               recv |-> _last_received, err |-> last_error]
         ELSE [ret |-> List(<<_history[Len(_history) - 1], _history[Len(_history)]>>),
               hist |-> SubSeq(_history, 1, Len(_history) - 1),
               sent |-> _last_sent, recv |-> _last_received, err |-> last_error]
    ELSE [ret |-> List(<<_last_sent, _last_received.content>>), hist |-> _history,
          sent |-> None, recv |-> None, err |-> FALSE]

\* With a pending turn, the slots are returned but not cleared.
rewind_keepsPending ==
    IF _last_received = None
    THEN IF Len(_history) < 2
         THEN [ret |-> Raise("IndexError"), hist |-> _history, sent |-> _last_sent,
               recv |-> _last_received, err |-> last_error]
         ELSE [ret |-> List(<<_history[Len(_history) - 1], _history[Len(_history)]>>),
               hist |-> SubSeq(_history, 1, Len(_history) - 2),
               sent |-> _last_sent, recv |-> _last_received, err |-> last_error]
    ELSE [ret |-> List(<<_last_sent, _last_received.content>>), hist |-> _history,
          sent |-> _last_sent, recv |-> _last_received, err |-> last_error]

\* With a pending turn, the committed history is popped as well.
rewind_popsCommitted ==
    IF Len(_history) < 2
    THEN [ret |-> Raise("IndexError"), hist |-> _history, sent |-> _last_sent,
          recv |-> _last_received, err |-> last_error]
    ELSE [ret |-> IF _last_received = None
                  THEN List(<<_history[Len(_history) - 1], _history[Len(_history)]>>)
                  ELSE List(<<_last_sent, _last_received.content>>),
          hist |-> SubSeq(_history, 1, Len(_history) - 2),
          sent |-> None, recv |-> None, err |-> FALSE]

\* pop() runs before pop(-2): the only entry is removed before the raise.
rewind_popsLastFirst ==
    IF _last_received = None
    THEN IF Len(_history) < 2
         THEN [ret |-> Raise("IndexError"), hist |-> <<>>, sent |-> _last_sent,
               recv |-> _last_received, err |-> last_error]
         ELSE [ret |-> List(<<_history[Len(_history) - 1], _history[Len(_history)]>>),
               hist |-> SubSeq(_history, 1, Len(_history) - 2),
               sent |-> _last_sent, recv |-> _last_received, err |-> last_error]
    ELSE [ret |-> List(<<_last_sent, _last_received.content>>), hist |-> _history,
          sent |-> None, recv |-> None, err |-> FALSE]

\* ChatSession.rewind
rewind ==
    IF _last_received = None
    THEN IF Len(_history) < 2
         THEN [ret |-> Raise("IndexError"), hist |-> _history, sent |-> _last_sent,
               recv |-> _last_received, err |-> last_error]
         ELSE [ret |-> List(<<_history[Len(_history) - 1], _history[Len(_history)]>>),
               hist |-> SubSeq(_history, 1, Len(_history) - 2),
               sent |-> _last_sent, recv |-> _last_received, err |-> last_error]
    ELSE [ret |-> List(<<_last_sent, _last_received.content>>), hist |-> _history,
          sent |-> None, recv |-> None, err |-> FALSE]

Rewind ==
    /\ pc = "idle"
    /\ SetSession(rewind)
    /\ Done("rewind", rewind.ret)
    /\ candidate' = Kept("rewind", candidate)
    /\ passed' = Kept("rewind", passed)
    /\ UNCHANGED <<config, locals>>
    /\ UNCHANGED applied

\* ------------------------------------------------------------ send_message
\* GenerativeModel._get_tools_lib
_get_tools_lib(tools) == IF tools = None THEN model_tools ELSE tools

\* GenerativeModel._tool_config: the model is built without a tool_config.
model_tool_config == None

\* The overrides a caller passes to send_message.
SafetySettings == {None, [kind |-> "SafetySettings", threshold |-> "BLOCK_NONE"]}

ToolConfigs == {None, [kind |-> "ToolConfig", mode |-> "ANY"]}

\* The keyword arguments of a call: the calls that pass no safety_settings
\* and no tool_config, and the calls that pass any combination with a
\* generation_config send_message accepts.
PlainOverrides ==
    [generation_config : {None, [kind |-> "GenerationConfig", candidate_count |-> 2]},
     safety_settings : {None}, tool_config : {None}]

AllOverrides ==
    [generation_config : {None, [kind |-> "GenerationConfig", candidate_count |-> 1]},
     safety_settings : SafetySettings, tool_config : ToolConfigs]

\* generation_config.get("candidate_count", 1)
candidate_count(config_) == IF config_ = None THEN 1 ELSE config_.candidate_count

\* GenerativeModel._prepare_request: what generate_content sends.  The
\* model has no generation or safety defaults of its own, so the merged
\* settings are the overrides.
_prepare_request(contents, config_, safety, tools, tool_config) ==
    [kind |-> "GenerateContentRequest",
     contents |-> contents,
     generation_config |-> config_,
     safety_settings |-> safety,
     tools |-> _get_tools_lib(tools),
     tool_config |-> IF tool_config = None THEN model_tool_config ELSE tool_config]

\* send_message has left: its locals are gone.
Idle ==
    /\ pc' = "idle"
    /\ history' = <<>>
    /\ response' = None
    /\ tools_lib' = None
    /\ generation_config' = None
    /\ safety_settings' = None

\* Was a turn pending when send_message was called?
WasPending == IF pc = "idle" THEN _last_received # None ELSE turn.pending

\* send_message leaves by raising exc; g is the session state it leaves.
SendRaises(exc, g, content, stream, ncalls, resps, names, afc, rounds) ==
    /\ SetSession(g)
    /\ candidate' = None
    /\ Idle
    /\ calls' = ncalls
    /\ responses' = resps
    /\ invoked' = names
    /\ turn' = [content |-> content, stream |-> stream, pending |-> WasPending,
                afc |-> afc, rounds |-> rounds, outcome |-> exc]
    /\ op' = "send_message"
    /\ result' = Raise(exc)
    /\ log' = <<[op |-> "send_message", exc |-> exc]>>

\* send_message returns resp; hist is the committed history it leaves, sent
\* the value of its local "content" at line 489, and content the message it
\* was given.
SendReturns(hist, sent, content, resp, stream, ncalls, resps, names, afc, rounds) ==
    /\ _history' = hist
    /\ _last_sent' = sent
    /\ _last_received' = resp
    /\ last_error' = FALSE
    /\ candidate' = [was |-> resp.content, now |-> resp.content]
    /\ Idle
    /\ calls' = ncalls
    /\ responses' = resps
    /\ invoked' = names
    /\ turn' = [content |-> content, stream |-> stream, pending |-> WasPending,
                afc |-> afc, rounds |-> rounds, outcome |-> "returned"]
    /\ op' = "send_message"
    /\ result' = resp
    /\ log' = <<[op |-> "send_message", exc |-> ""]>>

Unchanged == [ret |-> None, hist |-> _history, sent |-> _last_sent,
              recv |-> _last_received, err |-> last_error]

\* Lines 461-492, from the history read on, up to the first pass through
\* the AFC loop's test.  Each input is drawn where the code first uses it.
Exchange(content, stream, lib, overrides) ==
    LET g == history_copy
    IN  IF IsRaise(g.ret)
        THEN /\ SendRaises(g.ret.exc, g, content, stream, 0, <<>>, <<>>, FALSE, 0)
             /\ snap' = _history
             /\ requests' = <<>>
        ELSE /\ snap' = g.hist
             /\ \E o \in overrides :
                  IF candidate_count(o.generation_config) > 1
                  THEN /\ SendRaises("ValueError", g, content, stream, 0, <<>>, <<>>, FALSE, 0)
                       /\ requests' = <<>>
                  ELSE \E r \in Responses \cup {CallFails} :
                    LET request == _prepare_request(Append(g.hist, content), o.generation_config,
                                                    o.safety_settings, lib, o.tool_config)
                        resp == generate_content(r, stream)
                        checked == _check_response(resp, stream)
                    IN  /\ requests' = <<request>>
                        /\ IF IsRaise(resp)
                           THEN SendRaises(resp.exc, g, content, stream, 1, <<>>, <<>>, FALSE, 0)
                           ELSE IF checked # ""
                           THEN SendRaises(checked, g, content, stream, 1, <<>>, <<>>, FALSE, 0)
                           ELSE IF enable_automatic_function_calling /\ lib # None
                           THEN /\ SetSession(g)
                                /\ candidate' = None
                                /\ pc' = "afc"
                                /\ history' = Append(g.hist, content)
                                /\ response' = resp
                                /\ tools_lib' = lib
                                /\ generation_config' = o.generation_config
                                /\ safety_settings' = o.safety_settings
                                /\ calls' = 1
                                /\ responses' = <<resp>>
                                /\ invoked' = <<>>
                                /\ turn' = [content |-> content, stream |-> stream,
                                            pending |-> WasPending, afc |-> TRUE,
                                            rounds |-> 0, outcome |-> "running"]
                                /\ op' = "send_message"
                                /\ result' = None
                                /\ log' = <<>>
                           ELSE SendReturns(g.hist, content, content, resp, stream, 1,
                                            <<resp>>, <<>>, FALSE, 0)

\* Lines 456-459: to_content returns a canonical Content as the object it
\* is (content_types, lines 257-258), so the assignment of the role is made on the caller's
\* object; any other argument gives a new Content.
Passed(c, after) ==
    IF c.kind = "Content" THEN [was |-> c, now |-> after] ELSE None

\* The stream test comes after the coercion and the read of history.
send_message_checksLate(c, stream, overrides) ==
    LET coerced == to_content(c)
        content == role_or(coerced, _USER_ROLE)
    IN  /\ passed' = Passed(c, IF IsRaise(coerced) THEN c ELSE content)
        /\ IF IsRaise(coerced)
           THEN /\ SendRaises(coerced.exc, Unchanged, None, stream, 0, <<>>, <<>>, FALSE, 0)
                /\ snap' = _history
                /\ requests' = <<>>
           ELSE IF enable_automatic_function_calling /\ stream
           THEN /\ SendRaises("NotImplementedError", history_copy, None, stream, 0, <<>>, <<>>,
                              FALSE, 0)
                /\ snap' = _history
                /\ requests' = <<>>
           ELSE IF enable_automatic_function_calling
           THEN \E tools \in {None, TheLib} :
                   Exchange(content, stream, _get_tools_lib(tools), overrides)
           ELSE Exchange(content, stream, None, overrides)

\* Lines 448-459.
send_message(c, stream, overrides) ==
    LET coerced == to_content(c)
        content == role_or(coerced, _USER_ROLE)
    IN  /\ passed' = Passed(c, IF (enable_automatic_function_calling /\ stream)
                                      \/ IsRaise(coerced)
                                   THEN c ELSE content)
        /\ IF enable_automatic_function_calling /\ stream
           THEN /\ SendRaises("NotImplementedError", Unchanged, None, stream, 0, <<>>, <<>>,
                              FALSE, 0)
                /\ snap' = _history
                /\ requests' = <<>>
           ELSE IF IsRaise(coerced)
           THEN /\ SendRaises(coerced.exc, Unchanged, None, stream, 0, <<>>, <<>>, FALSE, 0)
                /\ snap' = _history
                /\ requests' = <<>>
           ELSE IF enable_automatic_function_calling
           THEN \E tools \in {None, TheLib} :
                   Exchange(content, stream, _get_tools_lib(tools), overrides)
           ELSE Exchange(content, stream, None, overrides)

SendMessage ==
    /\ pc = "idle"
    /\ Len(_history) + (IF _last_received = None THEN 2 ELSE 4) <= MaxHist
    /\ \E c \in Messages, stream \in BOOLEAN : send_message(c, stream, PlainOverrides)
    /\ UNCHANGED config
    /\ UNCHANGED applied

\* The first send_message call on a session, with generation, safety and
\* tool overrides.
SendMessageOverrides ==
    /\ pc = "idle"
    /\ op = "__init__"
    /\ Len(_history) + (IF _last_received = None THEN 2 ELSE 4) <= MaxHist
    /\ \E c \in Messages, stream \in BOOLEAN : send_message(c, stream, AllOverrides)
    /\ UNCHANGED config
    /\ UNCHANGED applied

\* ------------------------------------------------------------ _handle_afc
\* Leaving the loop: "*history, content = history", then lines 480-492:
\* the history setter, _last_sent, _last_received.
\* The loop's test is evaluated again instead of leaving the loop.
LoopExit_again ==
    UNCHANGED <<session, locals, calls, responses, invoked, turn, op, result, log, requests,
                candidate>>

\* The last Content of the working history is not split off.
LoopExit_keepsLast ==
    /\ SendReturns(history_set(List(history)).hist, history[Len(history)], turn.content,
                   response, turn.stream, calls, responses, invoked, TRUE, turn.rounds)
    /\ UNCHANGED requests

LoopExit ==
    LET content == history[Len(history)]
        rest == SubSeq(history, 1, Len(history) - 1)
    IN  /\ SendReturns(history_set(List(rest)).hist, content, turn.content, response,
                       turn.stream, calls, responses, invoked, TRUE, turn.rounds)
        /\ UNCHANGED requests

\* The working history is assigned to the session before the raise.
LoopRaises_keepsWork(exc, ncalls, names, reqs) ==
    /\ SendRaises(exc, [Unchanged EXCEPT !.hist = history], turn.content, turn.stream, ncalls,
                  responses, names, TRUE, turn.rounds)
    /\ requests' = reqs

\* The content and the response at hand are stored as the pending turn
\* before the raise.
LoopRaises_keepsPending(exc, ncalls, names, reqs) ==
    /\ SendRaises(exc, [Unchanged EXCEPT !.sent = history[Len(history)], !.recv = response],
                  turn.content, turn.stream, ncalls, responses, names, TRUE, turn.rounds)
    /\ requests' = reqs

\* reqs: the requests built so far, the one of a failing call included.
LoopRaises(exc, ncalls, names, reqs) ==
    /\ SendRaises(exc, Unchanged, turn.content, turn.stream, ncalls, responses, names,
                  TRUE, turn.rounds)
    /\ requests' = reqs

FcName(fcs) == [i \in 1..Len(fcs) |-> fcs[i].name]

\* Lines 537-543: the request of a continuation round, with the defaults
\* of generate_content for what is not passed.
\* The overrides of the call are not passed on.
ContinuationRequest_defaults(contents) ==
    _prepare_request(contents, None, None, tools_lib, None)

ContinuationRequest(contents) ==
    _prepare_request(contents, generation_config, safety_settings, tools_lib, None)

\* Would the loop run another round on this response?
Continues(resp) ==
    /\ ~IsRaise(resp)
    /\ _check_response(resp, turn.stream) = ""
    /\ ~IsRaise(_get_function_calls(resp))
    /\ _get_function_calls(resp).items # <<>>
    /\ AllCallable(tools_lib, _get_function_calls(resp).items) = "True"

\* Lines 523-545: one round.  boom is the position of the first function
\* call whose callable raises (0: every callable returns).
Round(fcs, boom, r) ==
    LET function_response_parts == [i \in 1..Len(fcs) |-> Lib__call__(tools_lib, fcs[i])]
        send == Content(_USER_ROLE, function_response_parts)
        extended == history \o <<response.content, send>>
        sent == Append(requests, ContinuationRequest(extended))
        resp == generate_content(r, turn.stream)
        checked == _check_response(resp, turn.stream)
    IN  /\ turn.rounds < MaxRounds
        /\ boom <= Len(fcs)
        /\ IF boom > 0
           THEN LoopRaises("CallableError", calls, invoked \o SubSeq(FcName(fcs), 1, boom),
                           requests)
           ELSE IF IsRaise(resp)
           THEN LoopRaises(resp.exc, calls + 1, invoked \o FcName(fcs), sent)
           ELSE IF checked # ""
           THEN LoopRaises(checked, calls + 1, invoked \o FcName(fcs), sent)
           ELSE /\ turn.rounds + 1 = MaxRounds => ~Continues(resp)
                /\ history' = extended
                /\ response' = resp
                /\ calls' = calls + 1
                /\ responses' = Append(responses, resp)
                /\ invoked' = invoked \o FcName(fcs)
                /\ turn' = [turn EXCEPT !.rounds = @ + 1]
                /\ requests' = sent
                /\ UNCHANGED <<session, pc, tools_lib, generation_config, safety_settings,
                               op, result, log, candidate>>

\* One evaluation of the while test (line 520) and what follows it.
_handle_afc(boom, r) ==
    LET function_calls == _get_function_calls(response)
    IN  IF IsRaise(function_calls)
        THEN LoopRaises(function_calls.exc, calls, invoked, requests)
        ELSE IF function_calls.items = <<>>
        THEN LoopExit
        ELSE LET callable == AllCallable(tools_lib, function_calls.items)
             IN  IF callable = "KeyError" THEN LoopRaises("KeyError", calls, invoked, requests)
                 ELSE IF callable = "False" THEN LoopExit
                 ELSE Round(function_calls.items, boom, r)

AfcStep ==
    /\ pc = "afc"
    /\ \E boom \in 0..2, r \in Responses \cup {CallFails} : _handle_afc(boom, r)
    /\ UNCHANGED <<config, snap, passed>>
    /\ UNCHANGED applied

\* ------------------------------------------------------------- streaming
\* Iterating a pending streaming response fails: the response stores the
\* error (generation_types, outside of the two source files).
StreamBreaks ==
    /\ pc = "idle"
    /\ _last_received # None
    /\ _last_received.stream
    /\ ~last_error
    /\ last_error' = TRUE
    /\ Done("iterate", Raise("StreamError"))
    /\ candidate' = Kept("iterate", candidate)
    /\ passed' = Kept("iterate", passed)
    /\ UNCHANGED <<_history, _last_sent, _last_received, config, locals>>
    /\ UNCHANGED applied

\* ---------------------------------------------------------- specification
Next ==
    \/ SendMessage
    \/ AfcStep
    \/ ReadHistory
    \/ ReadLast
    \/ SetHistory
    \/ Copy
    \/ Rewind
    \/ StreamBreaks

Spec == Init /\ [][Next]_vars

\* One turn, with every combination of overrides.
NextOverrides ==
    \/ SendMessageOverrides
    \/ AfcStep

SpecOverrides == Init /\ [][NextOverrides]_vars

\* One turn that runs on: send_message is one call of one thread, so once
\* the collaborator and the callables have returned, the next evaluation of
\* the loop's test (line 520) is taken.
SpecRunsOn == Init /\ [][NextOverrides]_vars /\ WF_vars(AfcStep)

\* Canonical Contents as arguments of send_message: with and without a role.
Contents ==
    {Content(role, <<Part("text", Str("hi"))>>) : role \in {"", _MODEL_ROLE}}

\* The first call on a session.
SendContent ==
    /\ pc = "idle"
    /\ op = "__init__"
    /\ Len(_history) + (IF _last_received = None THEN 2 ELSE 4) <= MaxHist
    /\ \E c \in Contents, stream \in BOOLEAN : send_message(c, stream, PlainOverrides)
    /\ UNCHANGED config
    /\ UNCHANGED applied

\* A session whose caller passes Contents and keeps them, and the responses.
NextObjects ==
    \/ SendContent
    \/ AfcStep
    \/ ReadHistory
    \/ SetHistory
    \/ Rewind

SpecObjects == Init /\ [][NextObjects]_vars

\* ------------------------------------- the functions of content_types alone
\* The sequences over a set, up to a length.
SeqsUpTo(S, n) == UNION {[1..k -> S] : k \in 0..n}

ContentDicts ==
    {Dict(<<<<"parts", List(<<Str("a")>>)>>>>),
     Dict(<<<<"role", Str(_USER_ROLE)>>, <<"parts", Str("a")>>>>),
     Dict(<<<<"parts", List(<<>>)>>>>),
     Dict(<<<<"parts", List(<<Number(1)>>)>>>>)}

OtherDicts ==
    {Dict(<<<<"text", Str("t")>>>>),
     Dict(<<<<"mime_type", Str("image/png")>>, <<"data", Str("x")>>>>),
     Dict(<<<<"foo", Str("x")>>>>)}

\* What is not a dict: one value of each kind of PartType, a Content, and a
\* value of no declared kind.
Objects ==
    {Str("a"), Part("text", Str("p")), UserContent, Blob("image/png", "x"),
     FileData("image/png", "files/1"), File("image/png", "files/2"),
     FunctionCall("f", NoArgs),
     FunctionResponse("f", Dict(<<<<"result", Number(0)>>>>)), Number(1)}

Elements == Objects \cup ContentDicts \cup OtherDicts

Empties == {None, Str(""), Dict(<<>>), Content("", <<>>), Content(_USER_ROLE, <<>>)}

\* The arguments of to_part, to_content and to_contents.
Values ==
    Empties \cup Elements
    \cup {List(items) : items \in SeqsUpTo(Elements, MaxLen)}
    \cup {Iter(items) : items \in SeqsUpTo(Elements, MaxLen)}

DeclarationInputs ==
    {CallableFunctionDeclaration("f", "count"), CallableFunctionDeclaration("k", "kwargs"),
     FunctionDeclaration("g"), FunctionDeclaration("f")}

\* A tool is given as one declaration or as a list of declarations.
ToolInputs ==
    DeclarationInputs
    \cup {List(<<CallableFunctionDeclaration("k", "kwargs")>>),
          List(<<CallableFunctionDeclaration("f", "count"), FunctionDeclaration("g")>>),
          List(<<FunctionDeclaration("g"), CallableFunctionDeclaration("k", "kwargs")>>),
          List(<<CallableFunctionDeclaration("f", "count"), FunctionDeclaration("f")>>)}

\* The tools argument of FunctionLibrary.
ToolsInputs == {[kind |-> "tools", tools |-> List(ts)] : ts \in SeqsUpTo(ToolInputs, MaxLen)}

OtherLib ==
    FunctionLibrary(List(<<List(<<CallableFunctionDeclaration("k", "kwargs"),
                                  FunctionDeclaration("g")>>),
                           CallableFunctionDeclaration("f", "count")>>))

ArgDicts ==
    {Dict(<<>>), Dict(<<<<"a", Number(1)>>>>), Dict(<<<<"a", Str("x")>>>>),
     Dict(<<<<"a", Number(1)>>, <<"b", Str("x")>>>>),
     Dict(<<<<"b", Str("x")>>, <<"a", Number(1)>>>>)}

\* A library and the function call it is called with.
CallInputs ==
    {[kind |-> "call", lib |-> lib, fc |-> FunctionCall(name, args)] :
        lib \in {TheLib, OtherLib}, name \in {"f", "g", "h", "k"}, args \in ArgDicts}

\* Python functions, by signature: f(a: int, b: str = "x"), g(a, *args, c,
\* **kwargs), h() and k(x: int = 0).
Functions ==
    {[name |-> "f", parameters |-> <<Parameter("a", "POSITIONAL_OR_KEYWORD", FALSE),
                                     Parameter("b", "POSITIONAL_OR_KEYWORD", TRUE)>>],
     [name |-> "g", parameters |-> <<Parameter("a", "POSITIONAL_OR_KEYWORD", FALSE),
                                     Parameter("args", "VAR_POSITIONAL", FALSE),
                                     Parameter("c", "KEYWORD_ONLY", FALSE),
                                     Parameter("kwargs", "VAR_KEYWORD", FALSE)>>],
     [name |-> "h", parameters |-> <<>>],
     [name |-> "k", parameters |-> <<Parameter("x", "POSITIONAL_OR_KEYWORD", TRUE)>>]}

\* The required argument of _generate_schema.
RequiredInputs ==
    {None, List(<<>>), List(<<Str("a")>>), List(<<Str("b")>>), List(<<Str("b"), Str("a")>>)}

SchemaInputs ==
    {[kind |-> "signature", f |-> f, required |-> required] :
        f \in Functions, required \in RequiredInputs}

\* No session is in use: its variables stay as they are here.
NoSession ==
    /\ _history = <<>>
    /\ _last_sent = None
    /\ _last_received = None
    /\ last_error = FALSE
    /\ enable_automatic_function_calling = FALSE
    /\ model_tools = NoLib
    /\ pc = "idle"
    /\ history = <<>>
    /\ response = None
    /\ tools_lib = None
    /\ generation_config = None
    /\ safety_settings = None
    /\ requests = <<>>
    /\ calls = 0
    /\ invoked = <<>>
    /\ responses = <<>>
    /\ turn = NoTurn
    /\ snap = <<>>
    /\ op = ""
    /\ result = None
    /\ log = <<>>
    /\ passed = None
    /\ candidate = None

InitTypes ==
    /\ NoSession
    /\ fn = ""
    /\ arg \in Values \cup ToolsInputs \cup CallInputs \cup SchemaInputs
    /\ out = None

\* arg is one of Values, and not the arguments of another function.
IsValue(x) == x.kind \notin {"tools", "call", "signature"}

Returns(name, value) ==
    /\ fn = ""
    /\ fn' = name
    /\ out' = value
    /\ UNCHANGED <<session, config, locals, requests, op, result, log, objects, arg>>

ToPart ==
    /\ IsValue(arg)
    /\ Returns("to_part", to_part(arg))
    /\ UNCHANGED observed

ToContent ==
    /\ IsValue(arg)
    /\ Returns("to_content", to_content(arg))
    /\ UNCHANGED observed

ToContents ==
    /\ IsValue(arg)
    /\ Returns("to_contents", to_contents(arg))
    /\ UNCHANGED observed

NewFunctionLibrary ==
    /\ arg.kind = "tools"
    /\ Returns("FunctionLibrary", FunctionLibrary(arg.tools))
    /\ UNCHANGED observed

\* FunctionLibrary.__call__: the bound function runs when the declaration is
\* found and is callable.
CallFunctionLibrary ==
    /\ arg.kind = "call"
    /\ Returns("FunctionLibrary.__call__", Lib__call__(arg.lib, arg.fc))
    /\ LET declaration == Lib__getitem__(arg.lib, arg.fc.name)
       IN  invoked' = IF ~IsRaise(declaration) /\ Callable(declaration)
                      THEN <<arg.fc.name>> ELSE <<>>
    /\ UNCHANGED <<calls, responses, turn, snap>>

GenerateSchema ==
    /\ arg.kind = "signature"
    /\ Returns("_generate_schema", _generate_schema(arg.f, arg.required))
    /\ UNCHANGED observed

NextTypes ==
    \/ ToPart
    \/ ToContent
    \/ ToContents
    \/ NewFunctionLibrary
    \/ CallFunctionLibrary
    \/ GenerateSchema

SpecTypes == InitTypes /\ [][NextTypes]_vars

\* ------------------------------------------------- what the claims refer to
\* The names of the function calls of a response, in order.
CallNames(resp) ==
    LET calls_ == SelectSeq(resp.content.parts, LAMBDA p : p.variant = "function_call")
    IN  [i \in 1..Len(calls_) |-> calls_[i].v.name]

\* The Content that answers a round: one function-response part per call,
\* with the wrapped count of the call's (no) arguments.
Answer(resp) ==
    Content("user", [i \in 1..Len(CallNames(resp)) |->
                        Part("function_response",
                             FunctionResponse(CallNames(resp)[i],
                                              Dict(<<<<"result", Number(0)>>>>)))])

RECURSIVE Pairs(_, _)
\* The (function-call content, function-response Content) pairs of rounds 1..k.
Pairs(resps, k) ==
    IF k = 0 THEN <<>> ELSE Pairs(resps, k - 1) \o <<resps[k].content, Answer(resps[k])>>

RECURSIVE NamesUpTo(_, _)
NamesUpTo(resps, k) ==
    IF k = 0 THEN <<>> ELSE NamesUpTo(resps, k - 1) \o CallNames(resps[k])

AsModel(content) == IF content.role = "" THEN [content EXCEPT !.role = "model"] ELSE content

Last(seq) == seq[Len(seq)]

Returned == pc = "idle" /\ turn.outcome = "returned"

Ok(name) == [op |-> name, exc |-> ""]

Failed(name, exc) == [op |-> name, exc |-> exc]

\* A pending response on which a read of history raises.
Broken ==
    /\ _last_received # None
    /\ last_error \/ _last_received.finish \notin {"FINISH_REASON_UNSPECIFIED", "STOP", "MAX_TOKENS"}

\* ------------------------------------------------------------------ C1
\* The turn returned after k >= 1 function-call responses and a plain-text one.
C1_Case ==
    /\ Returned
    /\ turn.afc
    /\ Len(responses) >= 2
    /\ CallNames(Last(responses)) = <<>>

\* C1: AFC round trip.  After k >= 1 function-call responses followed by a
\* plain-text response, send_message has invoked one callable per function
\* call, in order, has called the collaborator k+1 times, and leaves
\* _last_sent = the last function-response Content (role "user") and
\* _last_received = the final response; the read of history that follows
\* returns the pre-turn history, the user's content, the k pairs and the
\* final model content.
C1_AfcRoundTrip ==
    C1_Case =>
        LET k == Len(responses) - 1
            whole == snap \o <<turn.content>> \o Pairs(responses, k)
                          \o <<AsModel(Last(responses).content)>>
        IN  /\ invoked = NamesUpTo(responses, k)
            /\ calls = k + 1
            /\ turn.content.role = "user"
            /\ log = <<Ok("send_message")>> =>
                  /\ _last_sent = Answer(responses[k])
                  /\ _last_received = Last(responses)
                  /\ _history \o <<_last_sent>> = SubSeq(whole, 1, Len(whole) - 1)
            /\ log = <<Ok("send_message"), Ok("history")>> =>
                  /\ result = List(whole)
                  /\ _history = whole
                  /\ _last_sent = None
                  /\ _last_received = None

\* Two rounds, the first with two function calls, then the read of history.
C1_Witness ==
    /\ C1_Case
    /\ Len(responses) = 3
    /\ Len(invoked) = 3
    /\ log = <<Ok("send_message"), Ok("history")>>

\* ------------------------------------------------------------------ C2
\* C2: commit on read.  A read of history with a pending turn whose finish
\* reason is normal appends _last_sent and the candidate content, its role
\* set to "model" when empty, clears both slots and returns the extended
\* history; a read with no pending turn returns the committed history and
\* changes nothing, so the second of two reads returns what the first did.
C2_CommitOnRead ==
    [][op' = "history" /\ pc = "idle" =>
          /\ (_last_received # None /\ ~Broken) =>
                /\ _history' = _history \o <<_last_sent, AsModel(_last_received.content)>>
                /\ Last(_history').role # ""
                /\ _last_sent' = None
                /\ _last_received' = None
                /\ result' = List(_history')
          /\ _last_received = None =>
                /\ UNCHANGED session
                /\ result' = List(_history)
          /\ (op = "history" /\ ~IsRaise(result)) =>
                /\ result' = result
                /\ UNCHANGED session]_vars

\* A response with an empty role was committed, and history read again.
C2_Witness ==
    /\ Returned
    /\ Last(responses).content.role = ""
    /\ log = <<Ok("send_message"), Ok("history"), Ok("history")>>
    /\ Last(_history).role = "model"

\* ------------------------------------------------------------------ C3
\* A turn returned, a read of history committed it, rewind() came next.
C3_Case == Returned /\ log = <<Ok("send_message"), Ok("history"), Ok("rewind")>>

\* The claim as stated: after every successful turn, commit and rewind()
\* give back the history the turn started from.
C3_RewindRestoresEveryTurn == C3_Case => _history = snap

\* C3, amended: after a turn in which the AFC loop ran no round, commit and
\* rewind() give back the pre-turn history, two entries shorter than the
\* committed one; after a turn with k >= 1 rounds rewind() removes only the
\* last function-response Content and the final model content, and what
\* stays is the pre-turn history, the user's content, the first k-1 pairs
\* and the k-th function-call content.
C3_RewindRestoresPlainTurn ==
    C3_Case =>
        LET k == Len(responses) - 1
            whole == snap \o <<turn.content>> \o Pairs(responses, k)
                          \o <<AsModel(Last(responses).content)>>
        IN  /\ Len(_history) = Len(whole) - 2
            /\ _history = SubSeq(whole, 1, Len(whole) - 2)
            /\ result = List(SubSeq(whole, Len(whole) - 1, Len(whole)))
            /\ k = 0 => _history = snap
            /\ k >= 1 => _history = snap \o <<turn.content>> \o Pairs(responses, k - 1)
                                         \o <<responses[k].content>>

C3_Witness == C3_Case /\ Len(responses) = 1 /\ snap # <<>> /\ _history = snap

\* ------------------------------------------------------------------ C4
\* The turn's candidate finished abnormally: send_message raised for it
\* (not streaming), or returned it (streaming).
C4_AbnormalTurn ==
    /\ pc = "idle"
    /\ log # <<>>
    /\ \/ log[1] = Failed("send_message", "StopCandidateException")
       \/ /\ log[1] = Ok("send_message")
          /\ responses # <<>>
          /\ ~NormalFinish(Last(responses).finish)

C4_StreamingAbnormalTurn == C4_AbnormalTurn /\ turn.stream

\* The claim as stated: after a turn, streaming or not, whose candidate
\* finished abnormally, the read of history raises BrokenResponseError.
C4_ReadRaisesAfterAnyAbnormalTurn ==
    (C4_AbnormalTurn /\ Len(log) >= 2 /\ log[2].op = "history")
        => log[2].exc = "BrokenResponseError"

\* C4, amended: after a streaming turn whose candidate finished abnormally
\* the read of history raises BrokenResponseError, and after rewind() a read
\* of history succeeds and returns the history the turn started from.  (Not
\* streaming, send_message itself raises StopCandidateException and nothing
\* is pending.)
C4_BrokenThenRewind ==
    C4_StreamingAbnormalTurn =>
        /\ log[1] = Ok("send_message")
        /\ (Len(log) >= 2 /\ log[2].op = "history") => log[2].exc = "BrokenResponseError"
        /\ Len(log) = 1 => Broken /\ _history = snap
        /\ (Len(log) = 4 /\ log[2].op = "history" /\ log[3].op = "rewind"
                /\ log[4].op = "history") =>
              /\ log[3].exc = ""
              /\ log[4].exc = ""
              /\ result = List(snap)
              /\ _history = snap
              /\ _last_received = None

C4_Witness ==
    /\ C4_StreamingAbnormalTurn
    /\ snap # <<>>
    /\ log = <<Ok("send_message"), Failed("history", "BrokenResponseError"),
               Ok("rewind"), Ok("history")>>

\* ------------------------------------------------------------------ C5
\* C5: rewind() with no pending turn removes the last two committed entries
\* and returns them, second-to-last first; with a pending turn it returns
\* (_last_sent, candidate content of _last_received), clears both slots and
\* leaves the committed history as it is, whatever the pending response.
C5_RewindBranches ==
    [][op' = "rewind" /\ pc = "idle" =>
          /\ (_last_received = None /\ Len(_history) >= 2) =>
                /\ result' = List(<<_history[Len(_history) - 1], _history[Len(_history)]>>)
                /\ _history' = SubSeq(_history, 1, Len(_history) - 2)
                /\ _last_sent' = None
                /\ _last_received' = None
          /\ _last_received # None =>
                /\ result' = List(<<_last_sent, _last_received.content>>)
                /\ _history' = _history
                /\ _last_sent' = None
                /\ _last_received' = None]_vars

\* rewind() has discarded a pending turn whose response was broken.
C5_Witness ==
    /\ op = "rewind"
    /\ Len(log) = 3
    /\ log[2] = Failed("history", "BrokenResponseError")
    /\ log[3] = Ok("rewind")
    /\ _history = snap
    /\ Len(result.items) = 2

\* ------------------------------------------------------------------ C6
\* C6: while the pending response is broken, every read of history raises
\* BrokenResponseError and every read of last returns the pending response;
\* neither changes the committed history or the pending slots, and the
\* response stays broken.
C6_BrokenStaysBroken ==
    [][(Broken /\ pc = "idle" /\ op' \in {"history", "last"}) =>
          /\ op' = "history" => result' = Raise("BrokenResponseError")
          /\ op' = "last" => result' = _last_received
          /\ _history' = _history
          /\ _last_sent' = _last_sent
          /\ _last_received' = _last_received
          /\ Broken']_vars

\* Three reads in a row have raised.
C6_Witness ==
    /\ Broken
    /\ Len(log) = 4
    /\ \A i \in 2..4 : log[i] = Failed("history", "BrokenResponseError")

\* ------------------------------------------------------------------ C7
\* The claim as stated: only rewind() takes the session out of the state in
\* which a read of history raises.
C7_OnlyRewindRecovers == [][(Broken /\ ~Broken') => op' = "rewind"]_vars

\* C7, amended: only rewind() and an assignment of history take the session
\* out of the state in which a read of history raises; send_message, reads
\* of history and of last, and copying leave it there.
C7_RewindOrAssignmentRecovers ==
    [][(Broken /\ ~Broken') => op' \in {"rewind", "history.setter"}]_vars

\* An assignment of history followed a read that raised.
C7_Witness ==
    /\ ~Broken
    /\ Len(log) = 3
    /\ log[2] = Failed("history", "BrokenResponseError")
    /\ log[3] = Ok("history.setter")

\* ------------------------------------------------------------------ C8
\* send_message raised because the response it received failed validation.
C8_Case ==
    /\ pc = "idle"
    /\ log # <<>>
    /\ log[1].op = "send_message"
    /\ log[1].exc \in {"BlockedPromptException", "StopCandidateException"}
    /\ turn.outcome = log[1].exc

\* The claim as stated: the failed response is left pending.
C8_FailedResponseIsPending ==
    (C8_Case /\ Len(log) = 1) => _last_sent # None /\ _last_received # None

\* C8, amended: when validation of a response received by send_message
\* fails, send_message raises and stores nothing: no turn is pending (one
\* pending before the call has been committed by the call's read of
\* history), last is None and the committed history is the one the call
\* started from; rewind() then acts on the committed history, removing its
\* last two entries or failing when it has fewer.
C8_NothingStored ==
    C8_Case =>
        /\ Len(log) = 1 =>
              /\ _last_sent = None
              /\ _last_received = None
              /\ _history = snap
        /\ (Len(log) = 2 /\ log[2].op = "rewind") =>
              /\ _last_received = None
              /\ IF Len(snap) >= 2
                 THEN /\ log[2].exc = ""
                      /\ _history = SubSeq(snap, 1, Len(snap) - 2)
                 ELSE /\ log[2].exc = "IndexError"
                      /\ _history = snap

\* A pending turn was committed by the call that then failed validation.
C8_Witness ==
    /\ C8_Case
    /\ Len(log) = 1
    /\ turn.pending
    /\ turn.outcome = "StopCandidateException"
    /\ _history = snap

\* ------------------------------------------------------------------ C9
\* The claim as stated: send_message called with a turn pending fails,
\* calls no model and changes nothing.
C9_SendFromPendingFails ==
    [][(pc = "idle" /\ _last_received # None /\ op' = "send_message") =>
          /\ IsRaise(result')
          /\ calls' = 0
          /\ UNCHANGED <<_history, _last_sent, _last_received>>]_vars

\* C9, amended: send_message called with a turn pending either fails on
\* its arguments before anything else, or reads history: a pending turn with
\* a normal finish reason is committed by that read and the call goes on
\* from the committed history; a broken pending response makes the call
\* raise BrokenResponseError, with no model call and with the committed
\* history and both slots unchanged.
C9_SendFromPending ==
    [][(pc = "idle" /\ _last_received # None /\ op' = "send_message") =>
          \/ /\ Exc(result') \in {"NotImplementedError", "ValueError"}
             /\ calls' = 0
             /\ UNCHANGED <<_history, _last_sent, _last_received>>
          \/ /\ Broken
             /\ result' = Raise("BrokenResponseError")
             /\ calls' = 0
             /\ UNCHANGED <<_history, _last_sent, _last_received>>
          \/ /\ ~Broken
             /\ snap' = _history \o <<_last_sent, AsModel(_last_received.content)>>
             /\ _history' = snap'
             /\ IF pc' = "idle" /\ ~IsRaise(result')
                THEN /\ _last_sent' = turn'.content
                     /\ _last_received' = result'
                     /\ calls' = 1
                ELSE /\ _last_sent' = None
                     /\ _last_received' = None]_vars

\* A second send_message has returned after committing the turn before it.
C9_Witness ==
    /\ Returned
    /\ turn.pending
    /\ log = <<Ok("send_message")>>
    /\ Len(snap) >= 2
    /\ _history = snap
    /\ _last_received # None

\* ----------------------------------------------------------------- C10
CallableNames == {n \in DOMAIN TheLib.index : Callable(TheLib.index[n])}

DeclaredNames == DOMAIN TheLib.index

\* The first function call of the response that has no callable declaration.
FirstUnresolved(resp) ==
    LET names == CallNames(resp)
        i == CHOOSE j \in 1..Len(names) :
                /\ names[j] \notin CallableNames
                /\ \A l \in 1..(j - 1) : names[l] \in CallableNames
    IN  names[i]

\* The AFC loop has met a response with a function call it cannot resolve
\* to a callable.
C10_Case ==
    /\ pc = "idle"
    /\ turn.afc
    /\ responses # <<>>
    /\ \E i \in 1..Len(CallNames(Last(responses))) :
          CallNames(Last(responses))[i] \notin CallableNames

C10_Stops ==
    /\ invoked = NamesUpTo(responses, Len(responses) - 1)
    /\ calls = Len(responses)

C10_ReturnsAsIs ==
    /\ turn.outcome = "returned"
    /\ log = <<Ok("send_message")>> =>
          /\ result = Last(responses)
          /\ _last_received = Last(responses)

\* The claim as stated: whether the declaration is not callable or there
\* is none, the loop stops and send_message returns the response as it is.
C10_UnresolvedCallReturned == C10_Case => C10_Stops /\ C10_ReturnsAsIs

\* C10, amended: in a round whose response has a function call without a
\* callable declaration, no function of that round is invoked and no
\* further model call is made.  When the first such call names a
\* declaration that is not callable, send_message returns the response as
\* it is; when it names no declaration, the lookup raises KeyError out of
\* send_message and the turn is not stored.
C10_UnresolvedCall ==
    C10_Case =>
        /\ C10_Stops
        /\ IF FirstUnresolved(Last(responses)) \in DeclaredNames
           THEN C10_ReturnsAsIs
           ELSE /\ turn.outcome = "KeyError"
                /\ log = <<Failed("send_message", "KeyError")>> =>
                      /\ _last_received = None
                      /\ _history = snap

\* After one round, a response calling "f" (callable) and "g" (not).
C10_Witness ==
    /\ C10_Case
    /\ Len(responses) = 2
    /\ CallNames(Last(responses)) = <<"f", "g">>
    /\ log = <<Ok("send_message")>>
    /\ Len(invoked) = Len(CallNames(responses[1]))

\* ----------------------------------------------------------------- C11
\* The AFC loop has issued at least one continuation request.
C11_Case == turn.afc /\ Len(requests) >= 2

C11_SameOverrides(i) ==
    /\ requests[i].generation_config = requests[1].generation_config
    /\ requests[i].safety_settings = requests[1].safety_settings

\* The claim as stated: the request of every continuation round carries the
\* generation and safety overrides of the first request and no tools.
C11_ContinuationOmitsTools ==
    C11_Case => \A i \in 2..Len(requests) :
                    C11_SameOverrides(i) /\ requests[i].tools = None

\* C11, amended: the request of every continuation round carries the
\* generation and safety overrides of the first request and the same tool
\* library; what it leaves out is the tool_config override of the call, so
\* it carries the tool configuration of the model.
C11_ContinuationKeepsTools ==
    C11_Case => \A i \in 2..Len(requests) :
                    /\ C11_SameOverrides(i)
                    /\ requests[i].tools = requests[1].tools
                    /\ requests[i].tools = TheLib
                    /\ requests[i].tool_config = model_tool_config

\* Two continuation rounds of a call that passed all three overrides.
C11_Witness ==
    /\ C11_Case
    /\ Returned
    /\ Len(requests) = 3
    /\ requests[1].generation_config # None
    /\ requests[1].safety_settings # None
    /\ requests[1].tool_config # None

\* ----------------------------------------------------------------- C12
\* C12: send_message with stream=True on a session with automatic function
\* calling enabled raises NotImplementedError before anything else: it
\* builds no request, calls no model, invokes no function and leaves the
\* committed history and both pending slots as they were, a pending turn
\* staying pending.
C12_StreamWithAfcRejected ==
    [][(pc = "idle" /\ op' = "send_message" /\ enable_automatic_function_calling
            /\ turn'.stream) =>
          /\ result' = Raise("NotImplementedError")
          /\ pc' = "idle"
          /\ calls' = 0
          /\ requests' = <<>>
          /\ invoked' = <<>>
          /\ UNCHANGED session]_vars

\* The call was rejected with a turn pending, which is still pending.
C12_Witness ==
    /\ enable_automatic_function_calling
    /\ turn.stream
    /\ log = <<Failed("send_message", "NotImplementedError")>>
    /\ _last_received # None
    /\ _last_sent # None

\* ----------------------------------------------------------------- C13
\* send_message has just raised BlockedPromptException.
C13_Case == pc = "idle" /\ log = <<Failed("send_message", "BlockedPromptException")>>

\* The committed history as it was when the call began: the call's read of
\* history has appended a turn that was pending.
C13_HistoryAtCall == IF turn.pending THEN SubSeq(snap, 1, Len(snap) - 2) ELSE snap

\* The claim as stated: whenever send_message raises BlockedPromptException
\* it has invoked no function, has made one model call and has appended
\* nothing to the committed history.
C13_BlockedBeforeAnything ==
    C13_Case =>
        /\ invoked = <<>>
        /\ calls = 1
        /\ _history = C13_HistoryAtCall

\* C13, amended: send_message raises BlockedPromptException on receipt of
\* the blocked response and stores nothing of its own turn: the committed
\* history is the one its read of history returned (a turn pending before
\* the call is committed by that read) and no turn is pending.  When the
\* first response is the blocked one, no function has been invoked and one
\* model call made; when a continuation round's response is, the functions
\* of the rounds before it have been invoked, one model call was made per
\* accepted response and one more for the blocked one, and no function
\* was invoked after it.
C13_BlockedOnReceipt ==
    C13_Case =>
        /\ _history = snap
        /\ turn.pending => Len(snap) >= 2
        /\ _last_sent = None
        /\ _last_received = None
        /\ ~turn.afc => invoked = <<>> /\ calls = 1
        /\ turn.afc =>
              /\ responses # <<>>
              /\ calls = Len(responses) + 1
              /\ invoked = NamesUpTo(responses, Len(responses))
              /\ turn.rounds = Len(responses) - 1

\* A continuation round was blocked in a call that began with a turn pending.
C13_Witness ==
    /\ C13_Case
    /\ turn.afc
    /\ turn.pending
    /\ invoked # <<>>
    /\ calls = 2
\* ------------------------------------------------------------------- C14
\* An element that passes the strict check as the claim words it: a
\* canonical Content or a dict with a parts key.
C14_IsStrict(e) == e.kind = "Content" \/ (e.kind = "dict" /\ "parts" \in Keys(e))

\* The number of parts a strict element stands for.
C14_PartCount(e) ==
    IF e.kind = "Content" THEN Len(e.parts)
    ELSE IF Get(e, "parts").kind = "str" THEN 1 ELSE Len(Get(e, "parts").items)

\* out is one Content per element of arg, in the same order.
C14_OnePerElement ==
    /\ out.kind = "list"
    /\ Len(out.items) = Len(arg.items)
    /\ \A i \in 1..Len(arg.items) :
          /\ out.items[i].kind = "Content"
          /\ Len(out.items[i].parts) = C14_PartCount(arg.items[i])
          /\ arg.items[i].kind = "Content" => out.items[i] = arg.items[i]

\* out is exactly one Content, whose parts are the coerced elements of arg.
C14_OneContent ==
    /\ out.kind = "list"
    /\ Len(out.items) = 1
    /\ out.items[1].kind = "Content"
    /\ out.items[1].parts = [i \in 1..Len(arg.items) |-> to_part(arg.items[i])]

\* Every element of arg is of a declared type: a Content or a content-dict
\* whose parts are parts, or else a part.
C14_Typed ==
    \A i \in 1..Len(arg.items) :
        IF C14_IsStrict(arg.items[i])
        THEN ~IsRaise(strict_to_content(arg.items[i]))
        ELSE ~IsRaise(to_part(arg.items[i]))

\* The claim as stated: a list whose elements all pass the strict check
\* gives one Content per element, and a list with any element that fails it
\* gives exactly one Content of the coerced elements.
C14_StrictOrOneContent ==
    fn = "to_contents" /\ arg.kind = "list" /\ C14_Typed =>
        IF \A i \in 1..Len(arg.items) : C14_IsStrict(arg.items[i])
        THEN C14_OnePerElement
        ELSE C14_OneContent

\* C14 (amended): to_contents on a sequence gives one Content per element,
\* in order, if every element is a canonical Content or a dict with a parts
\* key whose parts coerce; it gives exactly one Content whose parts are the
\* coerced elements, in order, if every element coerces to a part (which a
\* Content and a dict with a parts key do not) ; on any other sequence it
\* raises.  to_contents(None) is the empty sequence.
C14_StrictOrAllParts ==
    fn = "to_contents" =>
        /\ arg = None => out = List(<<>>)
        /\ arg.kind = "list" =>
              IF \A i \in 1..Len(arg.items) :
                    /\ C14_IsStrict(arg.items[i])
                    /\ ~IsRaise(strict_to_content(arg.items[i]))
              THEN C14_OnePerElement
              ELSE IF \A i \in 1..Len(arg.items) : ~IsRaise(to_part(arg.items[i]))
              THEN C14_OneContent
              ELSE IsRaise(out)

\* to_contents(["a", {"text": "t"}]) has returned one Content of two parts.
C14_Witness ==
    /\ fn = "to_contents"
    /\ arg = List(<<Str("a"), Dict(<<<<"text", Str("t")>>>>)>>)
    /\ out = List(<<Content("", <<Part("text", Str("a")), Part("text", Str("t"))>>)>>)

\* ------------------------------------------------------------------- C15
C15_IsContentDict(e) == e.kind = "dict" /\ "parts" \in Keys(e)

\* arg is a list of content-dicts and bare strings, with both among them.
C15_Mixed ==
    /\ arg.kind = "list"
    /\ \A i \in 1..Len(arg.items) :
          C15_IsContentDict(arg.items[i]) \/ arg.items[i].kind = "str"
    /\ \E i \in 1..Len(arg.items) : C15_IsContentDict(arg.items[i])
    /\ \E i \in 1..Len(arg.items) : arg.items[i].kind = "str"

\* The claim as stated: a list mixing content-dicts and bare strings
\* collapses to one Content, with one part per element.
C15_MixedCollapses ==
    fn = "to_contents" /\ C15_Mixed =>
        /\ out.kind = "list"
        /\ Len(out.items) = 1
        /\ out.items[1].kind = "Content"
        /\ Len(out.items[1].parts) = Len(arg.items)

\* C15 (amended): a list mixing content-dicts and bare strings does not
\* collapse to one Content: to_contents raises a TypeError, because the
\* content-dict element is not accepted as a bare part.
C15_MixedRaises ==
    fn = "to_contents" /\ C15_Mixed => out = Raise("TypeError")

\* to_contents([{"parts": ["a"]}, "a"]) has raised.
C15_Witness ==
    /\ fn = "to_contents"
    /\ arg = List(<<Dict(<<<<"parts", List(<<Str("a")>>)>>>>), Str("a")>>)
    /\ IsRaise(out)

\* ------------------------------------------------------------------- C16
\* The variant the claim gives each kind of the declared union that is not
\* a dict; "" for a canonical Part, which passes through.
C16_Variant(kind) ==
    CASE kind = "str" -> "text"
      [] kind \in {"FileData", "File"} -> "file_data"
      [] kind = "FunctionCall" -> "function_call"
      [] kind = "FunctionResponse" -> "function_response"
      [] kind = "Blob" -> "inline_data"
      [] OTHER -> ""

\* C16: to_part maps a canonical Part to itself, and a string, a file
\* reference, a function call, a function response and a blob to a Part of
\* the text, fileData, functionCall, functionResponse and inlineData
\* variant.
C16_OneVariantPerKind ==
    fn = "to_part"
    /\ arg.kind \in {"Part", "str", "FileData", "File", "FunctionCall", "FunctionResponse",
                     "Blob"}
    /\ arg # Str("")
    => /\ out.kind = "Part"
       /\ arg.kind = "Part" => out = arg
       /\ arg.kind # "Part" => out.variant = C16_Variant(arg.kind)

\* ------------------------------------------------------------------- C17
\* C17: to_content fails or returns a Content whose parts list is not
\* empty, whatever it is given.
C17_NeverZeroParts ==
    fn = "to_content" => IsRaise(out) \/ (out.kind = "Content" /\ out.parts # <<>>)

\* ------------------------------------------------------------------- C18
\* The declarations of the tools given, tool by tool, as the caller wrote them.
C18_Given ==
    LET tools == arg.tools.items
        G[i \in 0..Len(tools)] ==
            IF i = 0 THEN <<>>
            ELSE G[i - 1] \o (IF tools[i].kind = "list" THEN tools[i].items ELSE <<tools[i]>>)
    IN  G[Len(tools)]

\* C18: FunctionLibrary(tools) raises the duplicate-name ValueError when two
\* of the declarations given share a name, wherever they are, and otherwise
\* returns a library whose index has exactly the declared names and
\* resolves each to its declaration.
C18_UniqueNamesOrError ==
    fn = "FunctionLibrary" =>
        IF \E i, j \in 1..Len(C18_Given) : i # j /\ C18_Given[i].name = C18_Given[j].name
        THEN out = Raise("ValueError")
        ELSE /\ out.kind = "FunctionLibrary"
             /\ DOMAIN out.index = {C18_Given[i].name : i \in 1..Len(C18_Given)}
             /\ \A i \in 1..Len(C18_Given) :
                   Lib__getitem__(out, C18_Given[i].name) = C18_Given[i]

\* Two single-function tools that both declare "f" have been rejected.
C18_Witness ==
    /\ fn = "FunctionLibrary"
    /\ arg.tools = List(<<CallableFunctionDeclaration("f", "count"), FunctionDeclaration("f")>>)
    /\ out = Raise("ValueError")

\* ------------------------------------------------------------------- C19
\* C19: FunctionLibrary.__call__ raises KeyError for a name the library does
\* not declare and returns None for a declaration that is not callable,
\* invoking nothing in both cases; for a callable declaration it invokes the
\* function once, with the call's arguments, and returns a function_response
\* Part with the call's name and the return value, as it is when it is a
\* dict and as {"result": value} when it is not.
C19_Invocation ==
    fn = "FunctionLibrary.__call__" =>
        LET name == arg.fc.name
            index == arg.lib.index
        IN  IF name \notin DOMAIN index
            THEN out = Raise("KeyError") /\ invoked = <<>>
            ELSE IF index[name].kind # "CallableFunctionDeclaration"
            THEN out = None /\ invoked = <<>>
            ELSE /\ invoked = <<name>>
                 /\ out.kind = "Part"
                 /\ out.variant = "function_response"
                 /\ out.v.kind = "FunctionResponse"
                 /\ out.v.name = name
                 /\ out.v.response =
                        IF index[name].function = "kwargs" THEN arg.fc.args
                        ELSE Dict(<<<<"result", Number(Len(arg.fc.args.pairs))>>>>)

\* "f", which counts its arguments, has been called with one argument.
C19_Witness ==
    /\ fn = "FunctionLibrary.__call__"
    /\ arg.fc = FunctionCall("f", Dict(<<<<"a", Number(1)>>>>))
    /\ invoked = <<"f">>
    /\ out = Part("function_response",
                  FunctionResponse("f", Dict(<<<<"result", Number(1)>>>>)))

\* ------------------------------------------------------------------- C20
\* The names of the parameters of f that have a fixed name and no default
\* value, in signature order.
C20_Inferred ==
    LET params == arg.f.parameters
        N[i \in 0..Len(params)] ==
            IF i = 0 THEN <<>>
            ELSE IF /\ params[i].kind \notin {"VAR_POSITIONAL", "VAR_KEYWORD"}
                    /\ ~params[i].default
                 THEN Append(N[i - 1], Str(params[i].name))
                 ELSE N[i - 1]
    IN  N[Len(params)]

\* C20: the required list of the schema is the list the caller supplied,
\* whatever list that is, and when none is supplied it is the list of the
\* fixed-name parameters without a default, in signature order.
C20_RequiredVerbatimOrInferred ==
    fn = "_generate_schema" =>
        out.parameters.required =
            IF arg.required # None THEN arg.required ELSE List(C20_Inferred)

\* ------------------------------------------------------------------- C22
\* send_message has just raised from inside the AFC loop.
C22_Case ==
    /\ pc = "idle"
    /\ log # <<>>
    /\ log[1].op = "send_message"
    /\ log[1].exc # ""
    /\ Len(log) = 1
    /\ turn.afc

\* C22: when send_message raises inside the AFC loop (the model call of a
\* continuation round fails, its response fails validation, a bound callable
\* raises, or the candidate count is not one), no turn is pending and the
\* committed history is the history that call read at its start: neither
\* the user's content nor the pairs of the completed rounds are in it.
C22_FailedAfcTurnLeavesNothing ==
    C22_Case =>
        /\ _last_sent = None
        /\ _last_received = None
        /\ _history = snap

\* A continuation round has completed and the next one has raised.
C22_Witness ==
    /\ C22_Case
    /\ turn.rounds >= 1
    /\ invoked # <<>>
    /\ _last_received = None

\* ------------------------------------------------------------------- C23
\* C23: in every state of a session, whatever operations have run on it,
\* _last_sent is None exactly when _last_received is None.
C23_SlotsSetTogether == (_last_sent = None) <=> (_last_received = None)

\* A turn is pending on a session with committed history.
C23_Witness ==
    /\ pc = "idle"
    /\ _last_sent # None
    /\ _last_received # None
    /\ op = "send_message"
    /\ Len(_history) >= 2

\* ------------------------------------------------------------------- C25
\* C25: rewind with no turn pending and fewer than two committed entries
\* raises and leaves the committed history and the pending slots as they
\* were.
C25_RewindOnShortHistory ==
    [][(pc = "idle" /\ op' = "rewind" /\ _last_received = None /\ Len(_history) < 2
            /\ <<op, result, log, session>>' # <<op, result, log, session>>) =>
          /\ IsRaise(result')
          /\ UNCHANGED session]_vars

\* rewind has raised on a session with one committed entry.
C25_Witness ==
    /\ op = "rewind"
    /\ IsRaise(result)
    /\ Len(_history) = 1
    /\ _last_sent = None
    /\ _last_received = None

\* ------------------------------------------------------------------- C26
\* C26: to_contents gives for an iterator that can be traversed once what
\* it gives for the list of the same elements; when the elements are
\* strings that is one Content with every element as a text part, in order,
\* the first included.
C26_OnePassAsList ==
    fn = "to_contents" /\ arg.kind = "iterator" =>
        /\ out = to_contents(List(arg.items))
        /\ (arg.items # <<>> /\ \A i \in 1..Len(arg.items) : arg.items[i].kind = "str") =>
              out = List(<<Content("", [i \in 1..Len(arg.items) |->
                                            Part("text", arg.items[i])])>>)


\* C24: the AFC loop ends.  A turn inside the loop leaves it (the
\* collaborator's response number MaxRounds + 1 at the latest is one the loop
\* does not continue on); a loop left on a response without function calls
\* returns; and a turn that is running or has returned after k rounds has
\* made exactly k + 1 model calls, every round adding exactly one.
C24_AfcLoopTerminates ==
    /\ (pc = "afc") ~> (pc = "idle" /\ op = "send_message")
    /\ [](turn.afc /\ turn.outcome \in {"running", "returned"} => calls = turn.rounds + 1)
    /\ [][pc = "afc" /\ turn'.rounds # turn.rounds =>
            /\ turn'.rounds = turn.rounds + 1
            /\ calls' = calls + 1
            /\ Len(requests') = Len(requests) + 1]_vars
    /\ [][pc = "afc" /\ pc' = "idle" /\ ~IsRaise(_get_function_calls(response))
            /\ _get_function_calls(response).items = <<>> =>
                turn'.outcome = "returned"]_vars

\* A turn has returned after MaxRounds rounds.
C24_Witness ==
    /\ pc = "idle"
    /\ turn.afc
    /\ turn.outcome = "returned"
    /\ turn.rounds = MaxRounds
    /\ calls = MaxRounds + 1
    /\ Len(invoked) >= MaxRounds


\* C21, as stated: a canonical Content passed to send_message and the
\* candidate content of a response have the same role and parts after any
\* session operation as before.
C21_ContentsNeverChange ==
    /\ passed # None => passed.now = passed.was
    /\ candidate # None => candidate.now = candidate.was

\* Has the call reached the assignment at line 459?
C21_RoleAssigned == turn.outcome # "none" /\ ~(enable_automatic_function_calling /\ turn.stream)

\* C21, amended: no session operation changes the parts of a Content or a
\* role that is not empty.  An empty role is filled in on the object itself:
\* send_message sets the role of the canonical Content it is given to "user"
\* once it is past the stream test, and a read of history that commits the
\* pending turn sets the role of the response's candidate content to
\* "model"; rewind and the assignment of history change neither object.
C21_OnlyEmptyRoleFilled ==
    /\ [](passed # None =>
            /\ passed.now.parts = passed.was.parts
            /\ passed.was.role # "" => passed.now.role = passed.was.role
            /\ passed.was.role = "" => passed.now.role \in {"", _USER_ROLE}
            /\ passed.was.role = "" /\ C21_RoleAssigned => passed.now.role = _USER_ROLE)
    /\ [](candidate # None =>
            /\ candidate.now.parts = candidate.was.parts
            /\ candidate.was.role # "" => candidate.now.role = candidate.was.role
            /\ candidate.was.role = "" => candidate.now.role \in {"", _MODEL_ROLE}
            /\ _last_received # None => candidate.now = candidate.was)
    /\ [][candidate # None /\ candidate' # None /\ candidate'.now # candidate.now
            /\ pc = "idle" /\ op' # "send_message" =>
                /\ op' = "history"
                /\ ~IsRaise(result')
                /\ _last_received # None
                /\ Last(_history') = candidate'.now
                /\ candidate'.now.role = _MODEL_ROLE]_vars
    /\ [][op' \in {"rewind", "history.setter"} /\ passed' # None /\ candidate' # None =>
                UNCHANGED objects]_vars

\* A Content passed without a role and a candidate content that came
\* without one have been given their roles.
C21_Witness ==
    /\ op = "history"
    /\ passed # None
    /\ passed.was.role = ""
    /\ passed.now.role = _USER_ROLE
    /\ candidate # None
    /\ candidate.was.role = ""
    /\ candidate.now.role = _MODEL_ROLE
    /\ _history # <<>>
    /\ Last(_history) = candidate.now

====
